---- MODULE Spec2Model ----
(***************************************************************************)
(* GPS_RTC_Clock.ino: a nightstand clock that keeps a DS1307 RTC in step   *)
(* with a GPS receiver and paints date and time on a TFT display.          *)
(*                                                                         *)
(* The sketch is a single run loop.  Each statement of loop() that touches *)
(* the program's state is one step of the model, sequenced by pc; the call *)
(* of setRTCfromGPS is a step of its own that returns to ret.  Real time   *)
(* (millis(), the RTC's oscillator, the wall clock behind now()) advances  *)
(* by Tick before any step that reads or sets a clock.                     *)
(*                                                                         *)
(* secondDotDisplay2 and tftDisplayGPSsats only draw and change no         *)
(* variable of the sketch; they are not steps of the model.  What the date *)
(* and time regions received in a cycle is kept in dateDrawn and timeDrawn *)
(* ("time" stands for the two dots and the four seven-segment cells).      *)
(***************************************************************************)
EXTENDS Integers, Sequences, FiniteSets, TLC

VARIABLES
  pc,               \* position in setup()/loop()
  ret,              \* where the running setRTCfromGPS call returns to
  rtcPresent,       \* rtc.begin() finds the device
  rtcRunning,       \* the DS1307 oscillator runs (rtc.isrunning())
  rtc,              \* the RTC's registers: [year, hour, minute, second]
  gps,              \* TinyGPS++ object: validity flags, satellites, sample
  chars,            \* gps.charsProcessed()
  ms,               \* millis()
  clock,            \* wall clock behind now()/toLocal: local second of day
  currentMillis, syncTimer, scheduledTimer,
  local,            \* local second of day sampled by this cycle
  rtcSet, newboot,
  numberColor, colorChange,
  photocellReading, backlightVal,
  dateDrawn,        \* what tftDisplayDate put on the display in this cycle
  timeDrawn,        \* what tftDisplayTime put on the display in this cycle
  glyphs,           \* cells drawn by draw7Number, most significant first
  n, nD,            \* arguments of a stand-alone draw7Number call
  cycle,            \* number of loop() iterations started
  ticks,            \* number of Tick steps taken
  writes,           \* rtc.adjust calls so far: caller and satellites in view
  bootRtc,          \* the sample checkRTCset read in setup()
  flipCycle,        \* cycle of the last colour flip (0: none)
  flipSynced,       \* rtcSet in that cycle
  sameSample,       \* this cycle sampled the same local time as the last
  phase,            \* ms of the wall clock's current second that have passed
  cS,               \* cell-size argument of a stand-alone draw7Number call
  geom,             \* segment dimensions and digit pitch draw7Number used
  sincePass,        \* ms since scheduledSync's 60 s gate last let a cycle in
  gateGap,          \* ms between the last two such cycles (-1: fewer than two)
  winWrites,        \* scheduledSync's writes in the minute-21 window entered
                    \* last (-1: none entered)
  winClosed         \* that window is over

vars == <<pc, ret, rtcPresent, rtcRunning, rtc, gps, chars, ms, clock,
          currentMillis, syncTimer, scheduledTimer, local, rtcSet, newboot,
          numberColor, colorChange, photocellReading, backlightVal,
          dateDrawn, timeDrawn, glyphs, n, nD, cycle, ticks, writes, bootRtc,
          flipCycle, flipSynced, sameSample, phase, cS, geom, sincePass,
          gateGap, winWrites, winClosed>>

---------------------------------------------------------------------------
\* Bounds of the model

MaxCycles == 2
MaxTicks == 1
MaxReading == 1023
MaxVal == 1100
MaxND == 11
MaxSchedTicks == 6

---------------------------------------------------------------------------
\* Inputs

Sample(y, h, m, s) == [year |-> y, hour |-> h, minute |-> m, second |-> s]

\* RTC contents at power-on: the DS1307 default and its neighbours.
RtcBootSamples ==
  { Sample(2000, 0, 0, 0), Sample(2000, 0, 0, 5), Sample(2000, 0, 1, 0),
    Sample(2000, 1, 0, 0), Sample(2009, 0, 0, 0), Sample(2010, 0, 0, 0),
    Sample(2024, 2, 21, 7) }

Fix(dv, tv, sats, s) ==
  [dateValid |-> dv, timeValid |-> tv, sats |-> sats, sample |-> s]

\* Values the fields hold before any sentence is decoded.
NoFix == Fix(FALSE, FALSE, 0, Sample(2000, 0, 0, 0))

\* What the receiver can report: nothing, a date or a time alone, and
\* complete fixes with few and with enough satellites.
GpsReports ==
  { NoFix,
    Fix(TRUE, FALSE, 0, Sample(2000, 0, 0, 0)),
    Fix(FALSE, TRUE, 0, Sample(2000, 0, 0, 0)),
    Fix(TRUE, TRUE, 4, Sample(2024, 2, 21, 9)),
    Fix(TRUE, TRUE, 6, Sample(2024, 2, 21, 9)),
    Fix(TRUE, TRUE, 6, Sample(2000, 0, 0, 0)) }

\* TinyGPS++ never clears a validity flag once a field was committed.
GpsInputs(g) ==
  { f \in GpsReports :
      (g.dateValid => f.dateValid) /\ (g.timeValid => f.timeValid) }

\* Photocell readings seen by the run loop.
Readings == {40, 150}

\* Local wall-clock time at power-on, as second of day.
HMS(h, m, s) == h * 3600 + m * 60 + s
StartClocks == { HMS(19, 59, 59), HMS(0, 4, 58), HMS(12, 20, 30) }

\* Elapsed time between two steps, in ms: a second, and long enough for the
\* 5 s and 60 s gates of loop() and scheduledSync to open.
TickSteps == {1000, 61000}

---------------------------------------------------------------------------
\* Time library accessors on a second of day

hour(t) == (t \div 3600) % 24
minute(t) == (t \div 60) % 60
second(t) == t % 60
hourFormat12(t) == IF hour(t) % 12 = 0 THEN 12 ELSE hour(t) % 12

AddSeconds(s, k) ==
  LET t == (HMS(s.hour, s.minute, s.second) + k) % 86400
  IN Sample(s.year, hour(t), minute(t), second(t))

---------------------------------------------------------------------------
\* Pure parts of the sketch

\* checkRTCset with the year bound off by one.
RtcNotSet_YearInclusive(now) ==
  now.hour = 0 /\ now.minute = 0 /\ now.second = 0 /\ now.year <= 2010

\* checkRTCset: the RTC still holds its power-on default.
RtcNotSet(now) ==
  now.hour = 0 /\ now.minute = 0 /\ now.second = 0 /\ now.year < 2010

\* setRTCfromGPS accepting a date or a time alone.
GpsValid_Either(g) == g.dateValid \/ g.timeValid

\* setRTCfromGPS: the receiver has both a date and a time.
GpsValid(g) == g.dateValid /\ g.timeValid

\* syncOnBoot: the fix is trusted for the first synchronisation.
BootFix(g) == g.dateValid /\ g.timeValid /\ g.sats > 4

\* setNumberColor with the evening starting after hour 20.
NightColor_AfterEight(t, reading) ==
  (hour(t) > 20 \/ hour(t) < 6) /\ reading <= 100

\* setNumberColor: the colour the digits should have.
NightColor(t, reading) == (hour(t) >= 20 \/ hour(t) < 6) /\ reading <= 100

\* setBackLightBrightness with the last threshold inclusive.
BacklightFor_Inclusive(prev, reading) ==
  LET b1 == IF reading > 100 THEN 255 ELSE prev
      b2 == IF reading <= 100 THEN 50 ELSE b1
      b3 == IF reading <= 50 THEN 20 ELSE b2
      b4 == IF reading <= 20 THEN 5 ELSE b3
  IN b4

\* setBackLightBrightness: four ifs in sequence, each overwriting the last.
BacklightFor(prev, reading) ==
  LET b1 == IF reading > 100 THEN 255 ELSE prev
      b2 == IF reading <= 100 THEN 50 ELSE b1
      b3 == IF reading <= 50 THEN 20 ELSE b2
      b4 == IF reading < 20 THEN 5 ELSE b3
  IN b4

\* tftDisplayDate / tftDisplayTime: the redraw conditions once rtcSet holds.
DateRedraw(t, millis, cc) ==
  (hour(t) = 0 /\ minute(t) < 5) \/ millis < 2500 \/ cc > 0

\* tftDisplayTime redrawing while the holdoff is not negative.
TimeRedraw_HoldoffInclusive(t, millis, cc) ==
  second(t) = 0 \/ millis < 2500 \/ cc >= 0

TimeRedraw(t, millis, cc) ==
  second(t) = 0 \/ millis < 2500 \/ cc > 0

Abs(x) == IF x < 0 THEN -x ELSE x

\* colorChange = colorChange - 1 on a 16-bit int.  Taking 1 off the least
\* int is undefined: any int may result.
Dec16(x) == IF x > -32768 THEN {x - 1} ELSE (-32768)..32767

\* loop() with the byte count compared the wrong way round.
NoGpsDetected_Inverted(millis, count) == millis > 5000 /\ count > 10

\* loop() with the byte count bound inclusive.
NoGpsDetected_Inclusive(millis, count) == millis > 5000 /\ count <= 10

\* loop(): currentMillis > 5000 && gps.charsProcessed() < 10
NoGpsDetected(millis, count) == millis > 5000 /\ count < 10

\* unsigned long: 32 bits, held as two 16-bit halves [hi, lo].
Half == 65536

U32(h, l) == [hi |-> h, lo |-> l]

ToU32(x) == U32((x \div Half) % Half, x % Half)

\* a + k in unsigned long arithmetic (0 <= k < 2^31)
Add32(a, k) ==
  LET l == a.lo + (k % Half)
      h == a.hi + (k \div Half) + (l \div Half)
  IN U32(h % Half, l % Half)

Gt32(a, b) == a.hi > b.hi \/ (a.hi = b.hi /\ a.lo > b.lo)

\* syncOnBoot, scheduledSync: currentMillis > (timer + wait)
TimerExpired(millis, timer, wait) == Gt32(millis, Add32(timer, wait))

\* unsigned int: 16 bits
Word == 65536

U16(x) == x % Word

\* draw7Number: c = abs(cS) clamped to 1..10
ClampSize(size) ==
  LET a == Abs(size) IN IF a > 10 THEN 10 ELSE IF a < 1 THEN 1 ELSE a

\* draw7Number: segment dimensions and the digit pitch d for a cell size
Geometry(size) ==
  LET S2 == U16(5 * size)
      S3 == U16(2 * size)
      S4 == U16(7 * size)
  IN [ S2 |-> S2, S3 |-> S3, S4 |-> S4,
       x1 |-> U16(size + 1), x2 |-> U16(S3 + S2 + 1),
       d |-> U16(S2 + 3 * S3 + 2) ]

\* No draw7Number call has been followed.
NoGeometry == [S2 |-> 0, S3 |-> 0, S4 |-> 0, x1 |-> 0, x2 |-> 0, d |-> 0]

\* draw7Number: indices into nums[] for blank and minus sign.
Blank == 10
Minus == 11

\* cnt = abs(nD) clamped to 1..10
ClampCount(d) ==
  LET a == Abs(d) IN IF a > 10 THEN 10 ELSE IF a < 1 THEN 1 ELSE a

\* The while loop with the minus sign not tied to the last cell.
RECURSIVE Cells_EarlyMinus(_, _, _, _)
Cells_EarlyMinus(num, cnt, val, d) ==
  IF cnt = 0 THEN <<>>
  ELSE LET c == cnt - 1
           i == IF num > 9 THEN num % 10
                ELSE IF val < 0 THEN Minus
                ELSE IF d < 0 /\ num = 0 THEN Blank
                ELSE num
       IN Append(Cells_EarlyMinus(num \div 10, c, val, d), i)

\* The while loop of draw7Number: one cell per pass, least significant
\* first, each drawn one pitch to the left of the last.  The result lists the
\* cells as they stand on the display, leftmost first.
RECURSIVE Cells(_, _, _, _)
Cells(num, cnt, val, d) ==
  IF cnt = 0 THEN <<>>
  ELSE LET c == cnt - 1
           i == IF num > 9 THEN num % 10
                ELSE IF c = 0 /\ val < 0 THEN Minus
                ELSE IF d < 0 /\ num = 0 THEN Blank
                ELSE num
       IN Append(Cells(num \div 10, c, val, d), i)

draw7Number(val, d) == Cells(Abs(val), ClampCount(d), val, d)

---------------------------------------------------------------------------
\* State after the globals are initialised, before setup() runs

Init ==
  /\ pc = "setup"
  /\ ret = "none"
  /\ rtcPresent \in BOOLEAN
  /\ rtcRunning \in BOOLEAN
  /\ rtc \in RtcBootSamples
  /\ gps = NoFix
  /\ chars = 0
  /\ ms = 0
  /\ clock \in StartClocks
  /\ currentMillis = 0 /\ syncTimer = 0 /\ scheduledTimer = 0
  /\ local = 0
  /\ rtcSet = FALSE /\ newboot = TRUE
  /\ numberColor = "WHITE" /\ colorChange = 0
  /\ photocellReading = 0 /\ backlightVal = 50
  /\ dateDrawn = "none" /\ timeDrawn = "none" /\ glyphs = <<>>
  /\ n = 0 /\ nD = 0
  /\ cycle = 0 /\ ticks = 0
  /\ writes = <<>>
  /\ bootRtc = Sample(0, 0, 0, 0)
  /\ flipCycle = 0 /\ flipSynced = FALSE
  /\ sameSample = FALSE
  /\ phase = 0 /\ cS = 5 /\ geom = NoGeometry
  /\ sincePass = 0 /\ gateGap = -1 /\ winWrites = -1 /\ winClosed = FALSE

---------------------------------------------------------------------------
\* Environment

\* The steps that read millis(), the wall clock or the RTC, or write the RTC.
\* Time that passes before any other step is time that passes before the
\* next of these.
ClockReads ==
  { "setup", "loop", "setRTCfromGPS", "loop_checkRTCset", "gpscheck",
    "tftDisplayDate", "tftDisplayTime" }

\* Time passes: millis(), the wall clock and a running RTC move together.
Tick ==
  /\ ticks < MaxTicks
  /\ pc \in ClockReads
  /\ \E d \in TickSteps :
       /\ ms' = ms + d
       /\ clock' = (clock + (phase + d) \div 1000) % 86400
       /\ phase' = (phase + d) % 1000
       /\ rtc' = IF rtcRunning THEN AddSeconds(rtc, d \div 1000) ELSE rtc
  /\ ticks' = ticks + 1
  /\ UNCHANGED <<pc, ret, rtcPresent, rtcRunning, gps, chars, currentMillis,
                 syncTimer, scheduledTimer, local, rtcSet, newboot,
                 numberColor, colorChange, photocellReading, backlightVal,
                 dateDrawn, timeDrawn, glyphs, n, nD, cycle, writes, bootRtc,
                 flipCycle, flipSynced, sameSample,
                 cS, geom, sincePass, gateGap, winWrites, winClosed>>

---------------------------------------------------------------------------
\* setup()

\* rtc.begin() fails: while (1);
setupNoRTC ==
  /\ pc = "setup" /\ ~rtcPresent
  /\ pc' = "halt_rtc"
  /\ UNCHANGED <<ret, rtcPresent, rtcRunning, rtc, gps, chars, ms, clock,
                 currentMillis, syncTimer, scheduledTimer, local, rtcSet,
                 newboot, numberColor, colorChange, photocellReading,
                 backlightVal, dateDrawn, timeDrawn, glyphs, n, nD, cycle,
                 ticks, writes, bootRtc, flipCycle, flipSynced, sameSample,
                 phase, cS, geom, sincePass, gateGap, winWrites, winClosed>>

\* checkRTCset, called once from setup()
setup ==
  /\ pc = "setup" /\ rtcPresent
  /\ rtcSet' = IF RtcNotSet(rtc) THEN rtcSet ELSE TRUE
  /\ bootRtc' = rtc
  /\ pc' = "loop"
  /\ UNCHANGED <<ret, rtcPresent, rtcRunning, rtc, gps, chars, ms, clock,
                 currentMillis, syncTimer, scheduledTimer, local, newboot,
                 numberColor, colorChange, photocellReading, backlightVal,
                 dateDrawn, timeDrawn, glyphs, n, nD, cycle, ticks, writes,
                 flipCycle, flipSynced, sameSample,
                 phase, cS, geom, sincePass, gateGap, winWrites, winClosed>>

---------------------------------------------------------------------------
\* loop()

\* currentMillis = millis(); if (!rtcSet) setRTCfromGPS() ...
loop ==
  /\ pc = "loop" /\ cycle < MaxCycles
  /\ cycle' = cycle + 1
  /\ currentMillis' = ms
  /\ dateDrawn' = "none" /\ timeDrawn' = "none"
  /\ IF ~rtcSet
       THEN pc' = "setRTCfromGPS" /\ ret' = "loop_checkRTCset"
       ELSE pc' = "encode" /\ ret' = ret
  /\ UNCHANGED <<rtcPresent, rtcRunning, rtc, gps, chars, ms, clock,
                 syncTimer, scheduledTimer, local, rtcSet, newboot,
                 numberColor, colorChange, photocellReading, backlightVal,
                 glyphs, n, nD, ticks, writes, bootRtc, flipCycle,
                 flipSynced, sameSample,
                 phase, cS, geom, sincePass, gateGap, winWrites, winClosed>>

Caller(r) ==
  IF r = "loop_checkRTCset" THEN "loop"
  ELSE IF r = "syncOnBoot_ret" THEN "boot" ELSE "sched"

\* setRTCfromGPS taking the clock for unset again after each write.
setRTCfromGPS_Invalidate ==
  /\ pc = "setRTCfromGPS"
  /\ IF GpsValid(gps)
       THEN /\ rtc' = gps.sample
            /\ rtcRunning' = TRUE
            /\ writes' = Append(writes, [by |-> Caller(ret), sats |-> gps.sats])
            /\ rtcSet' = FALSE
       ELSE UNCHANGED <<rtc, rtcRunning, writes, rtcSet>>
  /\ pc' = ret
  /\ ret' = "none"
  /\ UNCHANGED <<rtcPresent, gps, chars, ms, clock, currentMillis, syncTimer,
                 scheduledTimer, local, newboot, numberColor,
                 colorChange, photocellReading, backlightVal, dateDrawn,
                 timeDrawn, glyphs, n, nD, cycle, ticks, bootRtc, flipCycle,
                 flipSynced, sameSample,
                 phase, cS, geom, sincePass, gateGap, winWrites, winClosed>>

\* setRTCfromGPS: rtc.adjust(...) when date and time are valid.  Writing the
\* seconds register clears the DS1307's clock-halt bit.
setRTCfromGPS ==
  /\ pc = "setRTCfromGPS"
  /\ IF GpsValid(gps)
       THEN /\ rtc' = gps.sample
            /\ rtcRunning' = TRUE
            /\ writes' = Append(writes, [by |-> Caller(ret), sats |-> gps.sats])
       ELSE UNCHANGED <<rtc, rtcRunning, writes>>
  /\ pc' = ret
  /\ ret' = "none"
  /\ UNCHANGED <<rtcPresent, gps, chars, ms, clock, currentMillis, syncTimer,
                 scheduledTimer, local, rtcSet, newboot, numberColor,
                 colorChange, photocellReading, backlightVal, dateDrawn,
                 timeDrawn, glyphs, n, nD, cycle, ticks, bootRtc, flipCycle,
                 flipSynced, sameSample,
                 phase, cS, geom, sincePass, gateGap, winWrites, winClosed>>

\* ... checkRTCset() of the unsynced path
checkRTCset ==
  /\ pc = "loop_checkRTCset"
  /\ rtcSet' = IF RtcNotSet(rtc) THEN rtcSet ELSE TRUE
  /\ pc' = "encode"
  /\ UNCHANGED <<ret, rtcPresent, rtcRunning, rtc, gps, chars, ms, clock,
                 currentMillis, syncTimer, scheduledTimer, local, newboot,
                 numberColor, colorChange, photocellReading, backlightVal,
                 dateDrawn, timeDrawn, glyphs, n, nD, cycle, ticks, writes,
                 bootRtc, flipCycle, flipSynced, sameSample,
                 phase, cS, geom, sincePass, gateGap, winWrites, winClosed>>

\* while (ss.available() > 0) gps.encode(ss.read());
\* Bytes buffered since the last cycle are decoded: none, a few, or whole
\* sentences (chars counts up to 10, "10 or more").  The fix changes only
\* when a sentence was completed.
encode ==
  /\ pc = "encode"
  /\ \E k \in {0, 5, 10} :
       /\ chars' = IF chars + k > 10 THEN 10 ELSE chars + k
       /\ IF k < 10 THEN gps' = gps ELSE gps' \in GpsInputs(gps)
  /\ pc' = "gpscheck"
  /\ UNCHANGED <<ret, rtcPresent, rtcRunning, rtc, ms, clock, currentMillis,
                 syncTimer, scheduledTimer, local, rtcSet, newboot,
                 numberColor, colorChange, photocellReading, backlightVal,
                 dateDrawn, timeDrawn, glyphs, n, nD, cycle, ticks, writes,
                 bootRtc, flipCycle, flipSynced, sameSample,
                 phase, cS, geom, sincePass, gateGap, winWrites, winClosed>>

\* if (currentMillis > 5000 && gps.charsProcessed() < 10) while(true);
\* otherwise utc = now(); local = usCentral.toLocal(utc, &tcr);
gpscheck ==
  /\ pc = "gpscheck"
  /\ IF NoGpsDetected(currentMillis, chars)
       THEN pc' = "halt_gps" /\ UNCHANGED <<local, sameSample>>
       ELSE /\ pc' = "setNumberColor"
            /\ local' = clock
            /\ sameSample' = (cycle > 1 /\ clock = local)
  /\ UNCHANGED <<ret, rtcPresent, rtcRunning, rtc, gps, chars, ms, clock,
                 currentMillis, syncTimer, scheduledTimer, rtcSet, newboot,
                 numberColor, colorChange, photocellReading, backlightVal,
                 dateDrawn, timeDrawn, glyphs, n, nD, cycle, ticks, writes,
                 bootRtc, flipCycle, flipSynced,
                 phase, cS, geom, sincePass, gateGap, winWrites, winClosed>>

setNumberColor ==
  /\ pc = "setNumberColor"
  /\ \E r \in Readings :
       /\ photocellReading' = r
       /\ LET want == IF NightColor(local, r) THEN "RED" ELSE "WHITE"
          IN IF numberColor # want
               THEN /\ numberColor' = want
                    /\ colorChange' = 2
                    /\ flipCycle' = cycle
                    /\ flipSynced' = rtcSet
               ELSE UNCHANGED <<numberColor, colorChange, flipCycle,
                                flipSynced>>
  /\ pc' = "tftDisplayDate"
  /\ UNCHANGED <<ret, rtcPresent, rtcRunning, rtc, gps, chars, ms, clock,
                 currentMillis, syncTimer, scheduledTimer, local, rtcSet,
                 newboot, backlightVal, dateDrawn, timeDrawn, glyphs, n, nD,
                 cycle, ticks, writes, bootRtc, sameSample,
                 phase, cS, geom, sincePass, gateGap, winWrites, winClosed>>

\* tftDisplayDate leaving the holdoff as it is.
tftDisplayDate_NoDecrement ==
  /\ pc = "tftDisplayDate"
  /\ IF ~rtcSet
       THEN dateDrawn' = "waiting"
       ELSE IF DateRedraw(local, ms, colorChange)
              THEN dateDrawn' = "date"
              ELSE UNCHANGED dateDrawn
  /\ pc' = "tftDisplayTime"
  /\ UNCHANGED <<ret, rtcPresent, rtcRunning, rtc, gps, chars, ms, clock,
                 currentMillis, syncTimer, scheduledTimer, local, rtcSet,
                 newboot, numberColor, colorChange, photocellReading,
                 backlightVal, timeDrawn, glyphs, n, nD, cycle, ticks, writes,
                 bootRtc, flipCycle, flipSynced, sameSample,
                 phase, cS, geom, sincePass, gateGap, winWrites, winClosed>>

tftDisplayDate ==
  /\ pc = "tftDisplayDate"
  /\ IF ~rtcSet
       THEN dateDrawn' = "waiting" /\ colorChange' = colorChange
       ELSE IF DateRedraw(local, ms, colorChange)
              THEN dateDrawn' = "date" /\ colorChange' \in Dec16(colorChange)
              ELSE UNCHANGED <<dateDrawn, colorChange>>
  /\ pc' = "tftDisplayTime"
  /\ UNCHANGED <<ret, rtcPresent, rtcRunning, rtc, gps, chars, ms, clock,
                 currentMillis, syncTimer, scheduledTimer, local, rtcSet,
                 newboot, numberColor, photocellReading, backlightVal,
                 timeDrawn, glyphs, n, nD, cycle, ticks, writes, bootRtc,
                 flipCycle, flipSynced, sameSample,
                 phase, cS, geom, sincePass, gateGap, winWrites, winClosed>>

\* tftDisplayTime without the rtcSet test.
tftDisplayTime_NoGuard ==
  /\ pc = "tftDisplayTime"
  /\ IF TimeRedraw(local, ms, colorChange)
       THEN /\ timeDrawn' = "time"
            /\ glyphs' = draw7Number(hourFormat12(local), -2)
                           \o draw7Number(minute(local), 2)
            /\ colorChange' \in Dec16(colorChange)
       ELSE UNCHANGED <<timeDrawn, colorChange, glyphs>>
  /\ pc' = "setBackLightBrightness"
  /\ UNCHANGED <<ret, rtcPresent, rtcRunning, rtc, gps, chars, ms, clock,
                 currentMillis, syncTimer, scheduledTimer, local, rtcSet,
                 newboot, numberColor, photocellReading, backlightVal,
                 dateDrawn, n, nD, cycle, ticks, writes, bootRtc, flipCycle,
                 flipSynced, sameSample,
                 phase, cS, geom, sincePass, gateGap, winWrites, winClosed>>

tftDisplayTime ==
  /\ pc = "tftDisplayTime"
  /\ IF ~rtcSet
       THEN timeDrawn' = "waiting" /\ UNCHANGED <<colorChange, glyphs>>
       ELSE IF TimeRedraw(local, ms, colorChange)
              THEN /\ timeDrawn' = "time"
                   /\ glyphs' = draw7Number(hourFormat12(local), -2)
                                  \o draw7Number(minute(local), 2)
                   /\ colorChange' \in Dec16(colorChange)
              ELSE UNCHANGED <<timeDrawn, colorChange, glyphs>>
  /\ pc' = "setBackLightBrightness"
  /\ UNCHANGED <<ret, rtcPresent, rtcRunning, rtc, gps, chars, ms, clock,
                 currentMillis, syncTimer, scheduledTimer, local, rtcSet,
                 newboot, numberColor, photocellReading, backlightVal,
                 dateDrawn, n, nD, cycle, ticks, writes, bootRtc, flipCycle,
                 flipSynced, sameSample,
                 phase, cS, geom, sincePass, gateGap, winWrites, winClosed>>

setBackLightBrightness ==
  /\ pc = "setBackLightBrightness"
  /\ \E r \in Readings :
       /\ photocellReading' = r
       /\ backlightVal' = BacklightFor(backlightVal, r)
  /\ pc' = "syncOnBoot"
  /\ UNCHANGED <<ret, rtcPresent, rtcRunning, rtc, gps, chars, ms, clock,
                 currentMillis, syncTimer, scheduledTimer, local, rtcSet,
                 newboot, numberColor, colorChange, dateDrawn, timeDrawn,
                 glyphs, n, nD, cycle, ticks, writes, bootRtc, flipCycle,
                 flipSynced, sameSample,
                 phase, cS, geom, sincePass, gateGap, winWrites, winClosed>>

syncOnBoot ==
  /\ pc = "syncOnBoot"
  /\ IF newboot /\ BootFix(gps)
       THEN /\ pc' = "setRTCfromGPS" /\ ret' = "syncOnBoot_ret"
            /\ syncTimer' = syncTimer
       ELSE /\ pc' = "scheduledSync" /\ ret' = ret
            /\ syncTimer' = IF newboot /\ TimerExpired(ToU32(currentMillis),
                                                      ToU32(syncTimer), 250)
                              THEN currentMillis ELSE syncTimer
  /\ UNCHANGED <<rtcPresent, rtcRunning, rtc, gps, chars, ms, clock,
                 currentMillis, scheduledTimer, local, rtcSet, newboot,
                 numberColor, colorChange, photocellReading, backlightVal,
                 dateDrawn, timeDrawn, glyphs, n, nD, cycle, ticks, writes,
                 bootRtc, flipCycle, flipSynced, sameSample,
                 phase, cS, geom, sincePass, gateGap, winWrites, winClosed>>

\* newboot = false; syncTimer = 0; after the call
syncOnBootDone ==
  /\ pc = "syncOnBoot_ret"
  /\ newboot' = FALSE
  /\ syncTimer' = 0
  /\ pc' = "scheduledSync"
  /\ UNCHANGED <<ret, rtcPresent, rtcRunning, rtc, gps, chars, ms, clock,
                 currentMillis, scheduledTimer, local, rtcSet, numberColor,
                 colorChange, photocellReading, backlightVal, dateDrawn,
                 timeDrawn, glyphs, n, nD, cycle, ticks, writes, bootRtc,
                 flipCycle, flipSynced, sameSample,
                 phase, cS, geom, sincePass, gateGap, winWrites, winClosed>>

scheduledSync ==
  /\ pc = "scheduledSync"
  /\ IF TimerExpired(ToU32(currentMillis), ToU32(scheduledTimer), 60000)
       THEN IF minute(local) = 21
              THEN pc' = "setRTCfromGPS" /\ ret' = "scheduledSync_ret"
              ELSE pc' = "scheduledSync_ret" /\ ret' = ret
       ELSE pc' = "loop" /\ ret' = ret
  /\ UNCHANGED <<rtcPresent, rtcRunning, rtc, gps, chars, ms, clock,
                 currentMillis, syncTimer, scheduledTimer, local, rtcSet,
                 newboot, numberColor, colorChange, photocellReading,
                 backlightVal, dateDrawn, timeDrawn, glyphs, n, nD, cycle,
                 ticks, writes, bootRtc, flipCycle, flipSynced, sameSample,
                 phase, cS, geom, sincePass, gateGap, winWrites, winClosed>>

\* scheduledTimer = currentMillis; at the end of the gated block
scheduledSyncDone ==
  /\ pc = "scheduledSync_ret"
  /\ scheduledTimer' = currentMillis
  /\ pc' = "loop"
  /\ UNCHANGED <<ret, rtcPresent, rtcRunning, rtc, gps, chars, ms, clock,
                 currentMillis, syncTimer, local, rtcSet, newboot,
                 numberColor, colorChange, photocellReading, backlightVal,
                 dateDrawn, timeDrawn, glyphs, n, nD, cycle, ticks, writes,
                 bootRtc, flipCycle, flipSynced, sameSample,
                 phase, cS, geom, sincePass, gateGap, winWrites, winClosed>>

Next ==
  \/ Tick
  \/ setupNoRTC
  \/ setup
  \/ loop
  \/ setRTCfromGPS
  \/ checkRTCset
  \/ encode
  \/ gpscheck
  \/ setNumberColor
  \/ tftDisplayDate
  \/ tftDisplayTime
  \/ setBackLightBrightness
  \/ syncOnBoot
  \/ syncOnBootDone
  \/ scheduledSync
  \/ scheduledSyncDone

Spec == Init /\ [][Next]_vars

---------------------------------------------------------------------------
\* draw7Number on its own: any value, any digit count

InitDraw ==
  /\ pc = "draw7Number"
  /\ n \in (-MaxVal)..MaxVal
  /\ nD \in (-MaxND)..MaxND
  /\ glyphs = <<>>
  /\ ret = "none" /\ rtcPresent = TRUE /\ rtcRunning = TRUE
  /\ rtc = Sample(2024, 2, 21, 7) /\ gps = NoFix /\ chars = 0
  /\ ms = 0 /\ clock = 0
  /\ currentMillis = 0 /\ syncTimer = 0 /\ scheduledTimer = 0
  /\ local = 0
  /\ rtcSet = FALSE /\ newboot = TRUE
  /\ numberColor = "WHITE" /\ colorChange = 0
  /\ photocellReading = 0 /\ backlightVal = 50
  /\ dateDrawn = "none" /\ timeDrawn = "none"
  /\ cycle = 0 /\ ticks = 0
  /\ writes = <<>>
  /\ bootRtc = Sample(0, 0, 0, 0)
  /\ flipCycle = 0 /\ flipSynced = FALSE
  /\ sameSample = FALSE
  /\ phase = 0 /\ cS = 5 /\ geom = NoGeometry
  /\ sincePass = 0 /\ gateGap = -1 /\ winWrites = -1 /\ winClosed = FALSE

draw7NumberCall ==
  /\ pc = "draw7Number"
  /\ glyphs' = draw7Number(n, nD)
  /\ geom' = Geometry(cS)
  /\ pc' = "drawn"
  /\ UNCHANGED <<ret, rtcPresent, rtcRunning, rtc, gps, chars, ms, clock,
                 currentMillis, syncTimer, scheduledTimer, local, rtcSet,
                 newboot, numberColor, colorChange, photocellReading,
                 backlightVal, dateDrawn, timeDrawn, n, nD, cycle, ticks,
                 writes, bootRtc, flipCycle, flipSynced, sameSample,
                 phase, cS, sincePass, gateGap, winWrites, winClosed>>

SpecDraw == InitDraw /\ [][draw7NumberCall]_vars

---------------------------------------------------------------------------
\* setBackLightBrightness on its own: any reading of the 10-bit converter

InitLight ==
  /\ pc = "setBackLightBrightness"
  /\ backlightVal \in {5, 20, 50, 255}
  /\ photocellReading = 0
  /\ n = 0 /\ nD = 0 /\ glyphs = <<>>
  /\ ret = "none" /\ rtcPresent = TRUE /\ rtcRunning = TRUE
  /\ rtc = Sample(2024, 2, 21, 7) /\ gps = NoFix /\ chars = 0
  /\ ms = 0 /\ clock = 0
  /\ currentMillis = 0 /\ syncTimer = 0 /\ scheduledTimer = 0
  /\ local = 0
  /\ rtcSet = TRUE /\ newboot = TRUE
  /\ numberColor = "WHITE" /\ colorChange = 0
  /\ dateDrawn = "none" /\ timeDrawn = "none"
  /\ cycle = 1 /\ ticks = 0
  /\ writes = <<>>
  /\ bootRtc = Sample(2024, 2, 21, 7)
  /\ flipCycle = 0 /\ flipSynced = FALSE
  /\ sameSample = FALSE
  /\ phase = 0 /\ cS = 5 /\ geom = NoGeometry
  /\ sincePass = 0 /\ gateGap = -1 /\ winWrites = -1 /\ winClosed = FALSE

setBackLightBrightnessCall ==
  /\ pc = "setBackLightBrightness"
  /\ \E r \in 0..MaxReading :
       /\ photocellReading' = r
       /\ backlightVal' = BacklightFor(backlightVal, r)
  /\ pc' = "lit"
  /\ UNCHANGED <<ret, rtcPresent, rtcRunning, rtc, gps, chars, ms, clock,
                 currentMillis, syncTimer, scheduledTimer, local, rtcSet,
                 newboot, numberColor, colorChange, dateDrawn, timeDrawn,
                 glyphs, n, nD, cycle, ticks, writes, bootRtc, flipCycle,
                 flipSynced, sameSample,
                 phase, cS, geom, sincePass, gateGap, winWrites, winClosed>>

SpecLight == InitLight /\ [][setBackLightBrightnessCall]_vars

---------------------------------------------------------------------------
\* setNumberColor on its own: any hour, any reading, either colour before

InitColor ==
  /\ pc = "setNumberColor"
  /\ local \in { HMS(h, 30, 0) : h \in 0..23 }
  /\ numberColor \in {"WHITE", "RED"}
  /\ colorChange = 0
  /\ photocellReading = 0 /\ backlightVal = 50
  /\ n = 0 /\ nD = 0 /\ glyphs = <<>>
  /\ ret = "none" /\ rtcPresent = TRUE /\ rtcRunning = TRUE
  /\ rtc = Sample(2024, 2, 21, 7) /\ gps = NoFix /\ chars = 10
  /\ ms = 0 /\ clock = local
  /\ currentMillis = 0 /\ syncTimer = 0 /\ scheduledTimer = 0
  /\ rtcSet = TRUE /\ newboot = TRUE
  /\ dateDrawn = "none" /\ timeDrawn = "none"
  /\ cycle = 1 /\ ticks = 0
  /\ writes = <<>>
  /\ bootRtc = Sample(2024, 2, 21, 7)
  /\ flipCycle = 0 /\ flipSynced = FALSE
  /\ sameSample = FALSE
  /\ phase = 0 /\ cS = 5 /\ geom = NoGeometry
  /\ sincePass = 0 /\ gateGap = -1 /\ winWrites = -1 /\ winClosed = FALSE

setNumberColorCall ==
  /\ pc = "setNumberColor"
  /\ \E r \in 0..MaxReading :
       /\ photocellReading' = r
       /\ LET want == IF NightColor(local, r) THEN "RED" ELSE "WHITE"
          IN IF numberColor # want
               THEN /\ numberColor' = want
                    /\ colorChange' = 2
                    /\ flipCycle' = cycle
                    /\ flipSynced' = rtcSet
               ELSE UNCHANGED <<numberColor, colorChange, flipCycle,
                                flipSynced>>
  /\ pc' = "colored"
  /\ UNCHANGED <<ret, rtcPresent, rtcRunning, rtc, gps, chars, ms, clock,
                 currentMillis, syncTimer, scheduledTimer, local, rtcSet,
                 newboot, backlightVal, dateDrawn, timeDrawn, glyphs, n, nD,
                 cycle, ticks, writes, bootRtc, sameSample,
                 phase, cS, geom, sincePass, gateGap, winWrites, winClosed>>

SpecColor == InitColor /\ [][setNumberColorCall]_vars

---------------------------------------------------------------------------
\* draw7Number on its own: any cell size a char can hold

InitGeom ==
  /\ pc = "draw7Number"
  /\ n \in {-7, 38}
  /\ nD \in {-2, 2}
  /\ cS \in (-128)..127
  /\ glyphs = <<>> /\ geom = NoGeometry
  /\ ret = "none" /\ rtcPresent = TRUE /\ rtcRunning = TRUE
  /\ rtc = Sample(2024, 2, 21, 7) /\ gps = NoFix /\ chars = 0
  /\ ms = 0 /\ clock = 0
  /\ currentMillis = 0 /\ syncTimer = 0 /\ scheduledTimer = 0
  /\ local = 0
  /\ rtcSet = FALSE /\ newboot = TRUE
  /\ numberColor = "WHITE" /\ colorChange = 0
  /\ photocellReading = 0 /\ backlightVal = 50
  /\ dateDrawn = "none" /\ timeDrawn = "none"
  /\ cycle = 0 /\ ticks = 0
  /\ writes = <<>>
  /\ bootRtc = Sample(0, 0, 0, 0)
  /\ flipCycle = 0 /\ flipSynced = FALSE
  /\ sameSample = FALSE
  /\ phase = 0
  /\ sincePass = 0 /\ gateGap = -1 /\ winWrites = -1 /\ winClosed = FALSE

SpecGeom == InitGeom /\ [][draw7NumberCall]_vars

---------------------------------------------------------------------------
\* scheduledSync over a long run.  The clock counts as set, newboot is
\* cleared and the receiver holds a valid fix, so of loop() only
\* currentMillis = millis(), the sampling of local and scheduledSync bear on
\* the scheduler; a cycle is one step.  loop() runs once per millisecond, and
\* a stretch of time in which every cycle would find the 60 s gate shut is
\* one step of the environment.  millis(), currentMillis and scheduledTimer
\* are 32-bit values here.

\* millis() when the gate last let a cycle in: 60001, the first cycle that
\* can pass it after power-on, and 2^32 - 50000, 50 s before millis() wraps.
SchedStarts == { U32(0, 60001), U32(65535, 15536) }

\* Wall clock at that moment: second of day and ms within the second.
SchedClocks == { <<HMS(2, 20, 30), 0>>, <<HMS(2, 20, 59), 999>> }

SchedSteps == {1, 30000, 60000}

InitSched ==
  /\ pc = "idle"
  /\ ms \in SchedStarts
  /\ currentMillis = ms /\ scheduledTimer = ms
  /\ \E c \in SchedClocks : clock = c[1] /\ phase = c[2]
  /\ local = clock
  /\ syncTimer = 0
  /\ ret = "none" /\ rtcPresent = TRUE /\ rtcRunning = TRUE
  /\ rtc = Sample(2024, 2, 20, 59)
  /\ gps = Fix(TRUE, TRUE, 6, Sample(2024, 2, 21, 9)) /\ chars = 10
  /\ rtcSet = TRUE /\ newboot = FALSE
  /\ numberColor = "WHITE" /\ colorChange = 0
  /\ photocellReading = 150 /\ backlightVal = 255
  /\ dateDrawn = "none" /\ timeDrawn = "none" /\ glyphs = <<>>
  /\ n = 0 /\ nD = 0
  /\ cycle = 0 /\ ticks = 0
  /\ writes = <<>>
  /\ bootRtc = Sample(2024, 2, 19, 0)
  /\ flipCycle = 0 /\ flipSynced = FALSE
  /\ sameSample = FALSE
  /\ cS = 5 /\ geom = NoGeometry
  /\ sincePass = 0 /\ gateGap = -1 /\ winWrites = -1 /\ winClosed = FALSE

\* No cycle in the d ms to come, the last apart, finds the gate open.
GateShutFor(d) ==
  \/ d = 1
  \/ /\ Gt32(Add32(ms, d - 1), ms)
     /\ ~TimerExpired(Add32(ms, d - 1), scheduledTimer, 60000)

\* Time passes until the next cycle that matters.
schedTick ==
  /\ pc = "idle" /\ ticks < MaxSchedTicks
  /\ \E d \in SchedSteps :
       /\ GateShutFor(d)
       /\ ms' = Add32(ms, d)
       /\ clock' = (clock + (phase + d) \div 1000) % 86400
       /\ phase' = (phase + d) % 1000
       /\ rtc' = AddSeconds(rtc, (phase + d) \div 1000)
       /\ sincePass' = sincePass + d
  /\ winWrites' = IF minute(clock) # 21 /\ minute(clock') = 21
                     THEN 0 ELSE winWrites
  /\ winClosed' = IF minute(clock) # 21 /\ minute(clock') = 21 THEN FALSE
                  ELSE IF minute(clock) = 21 /\ minute(clock') # 21
                         THEN winWrites >= 0
                  ELSE winClosed
  /\ ticks' = ticks + 1
  /\ pc' = "loop"
  /\ UNCHANGED <<ret, rtcPresent, rtcRunning, gps, chars, currentMillis,
                 syncTimer, scheduledTimer, local, rtcSet, newboot,
                 numberColor, colorChange, photocellReading, backlightVal,
                 dateDrawn, timeDrawn, glyphs, n, nD, cycle, writes, bootRtc,
                 flipCycle, flipSynced, sameSample, cS, geom, gateGap>>

\* One pass of loop(): currentMillis = millis(); ... local = toLocal(now());
\* ... scheduledSync(), with its call of setRTCfromGPS.
schedCycle ==
  /\ pc = "loop"
  /\ cycle' = cycle + 1
  /\ currentMillis' = ms
  /\ local' = clock
  /\ IF TimerExpired(ms, scheduledTimer, 60000)
       THEN /\ IF minute(clock) = 21 /\ GpsValid(gps)
                 THEN /\ rtc' = gps.sample
                      /\ writes' = Append(writes, [by |-> "sched",
                                                   sats |-> gps.sats])
                      /\ winWrites' = IF winWrites >= 0 THEN winWrites + 1
                                      ELSE winWrites
                 ELSE UNCHANGED <<rtc, writes, winWrites>>
            /\ scheduledTimer' = ms
            /\ gateGap' = sincePass
            /\ sincePass' = 0
       ELSE UNCHANGED <<rtc, writes, winWrites, scheduledTimer, gateGap,
                        sincePass>>
  /\ pc' = "idle"
  /\ UNCHANGED <<ret, rtcPresent, rtcRunning, gps, chars, ms, clock,
                 syncTimer, rtcSet, newboot, numberColor, colorChange,
                 photocellReading, backlightVal, dateDrawn, timeDrawn, glyphs,
                 n, nD, ticks, bootRtc, flipCycle, flipSynced, sameSample,
                 phase, cS, geom, winClosed>>

NextSched == schedTick \/ schedCycle

SpecSched == InitSched /\ [][NextSched]_vars

---------------------------------------------------------------------------
\* Properties

TotalWrites == Len(writes)

WritesBy(c) == Cardinality({k \in 1..Len(writes) : writes[k].by = c})

\* The cycle has passed tftDisplayTime (at "loop" the cycle just ended).
AfterDisplay ==
  \/ pc \in {"setBackLightBrightness", "syncOnBoot", "syncOnBoot_ret",
             "scheduledSync", "scheduledSync_ret"}
  \/ (pc = "setRTCfromGPS" /\ ret # "loop_checkRTCset")
  \/ (pc = "loop" /\ cycle > 0)

\* C1: while rtcSet is false the date and time regions hold nothing but the
\* waiting text: no date, no dots, no seven-segment digits, and once a
\* cycle has passed a region it shows the waiting text.
C1_UnsyncedShowsWaiting ==
  ~rtcSet =>
    /\ glyphs = <<>>
    /\ dateDrawn \in {"none", "waiting"}
    /\ timeDrawn \in {"none", "waiting"}
    /\ (pc = "tftDisplayTime" \/ AfterDisplay) => dateDrawn = "waiting"
    /\ AfterDisplay => timeDrawn = "waiting"

C1_Witness ==
  /\ pc = "setBackLightBrightness" /\ ~rtcSet /\ cycle = 2
  /\ GpsValid(gps)
  /\ dateDrawn = "waiting" /\ timeDrawn = "waiting"

\* C2: a call of setRTCfromGPS writes the RTC exactly when the receiver's
\* date and time are both valid; otherwise it changes neither the RTC nor
\* rtcSet, newboot or the timers.  Nothing else writes the RTC.
C2_WriteIffValid ==
  [][ /\ (pc = "setRTCfromGPS" /\ pc' # pc) =>
           IF gps.dateValid /\ gps.timeValid
             THEN TotalWrites' = TotalWrites + 1 /\ rtc' = gps.sample
             ELSE UNCHANGED <<rtc, rtcRunning, writes, rtcSet, newboot,
                              currentMillis, syncTimer, scheduledTimer>>
      /\ (writes' # writes) => pc = "setRTCfromGPS" ]_vars

C2_Witness ==
  /\ pc = "scheduledSync_ret" /\ rtc = gps.sample
  /\ WritesBy("sched") = 1 /\ WritesBy("loop") = 0

\* C3: after setup the clock counts as unset exactly when the RTC read
\* 0:00:00 with a year before 2010.
C3_BootValidation ==
  (pc = "loop" /\ cycle = 0) =>
    (rtcSet <=> ~(bootRtc.hour = 0 /\ bootRtc.minute = 0
                   /\ bootRtc.second = 0 /\ bootRtc.year < 2010))

C3_Witness ==
  pc = "loop" /\ cycle = 0 /\ ~rtcSet /\ bootRtc = Sample(2009, 0, 0, 0)

\* C4: booted with an unset RTC, once a fix with 6 satellites (the only
\* kind of fix written so far, scheduled writes apart) has cleared newboot
\* and made the clock count as set, the RTC has been written from the
\* receiver exactly once.
C4_WrittenOnce ==
  ( /\ pc = "loop" /\ RtcNotSet(bootRtc)
    /\ ~newboot /\ rtcSet
    /\ \A k \in 1..Len(writes) : writes[k].sats = 6 /\ writes[k].by # "sched" )
  => TotalWrites = 1

\* C5: booted with an RTC in year 2000, as long as the receiver has no
\* valid fix and sees no satellite the clock never counts as set, no
\* region shows a date or a time, and the RTC is not written.
C5_NoFixStaysUnsynced ==
  ( /\ pc \notin {"setup", "halt_rtc"} /\ bootRtc.year = 2000
    /\ ~GpsValid(gps) /\ gps.sats = 0 )
  => ( /\ ~rtcSet /\ TotalWrites = 0
       /\ dateDrawn # "date" /\ timeDrawn # "time" )

C7_Idempotent ==
  ( /\ AfterDisplay /\ sameSample /\ flipCycle # cycle
    /\ second(local) # 0 )
  => timeDrawn = "none"

\* C7 amended: such a cycle draws nothing in the time region provided also
\* that the clock counts as set, millis() has reached 2500 and colorChange
\* is not positive when tftDisplayTime runs.
C7_IdleTimeRegion ==
  [][ ( /\ pc = "tftDisplayTime" /\ pc' # pc
        /\ sameSample /\ flipCycle # cycle /\ second(local) # 0
        /\ rtcSet /\ ms >= 2500 /\ colorChange <= 0 )
      => (timeDrawn' = "none" /\ UNCHANGED <<glyphs, colorChange>>) ]_vars

C7_Witness ==
  /\ pc = "setBackLightBrightness" /\ cycle = 2 /\ rtcSet
  /\ sameSample /\ flipCycle # cycle /\ second(local) # 0
  /\ ms >= 2500 /\ colorChange <= 0 /\ timeDrawn = "none"

\* C8: every reading falls in one tier: above 100 bright (255), 51..100
\* dim (50), 20..50 dimmer (20), below 20 dimmest (5), whatever the
\* backlight was before.
C8_BrightnessTiers ==
  pc = "lit" =>
    backlightVal = ( IF photocellReading > 100 THEN 255
                     ELSE IF photocellReading >= 51 THEN 50
                     ELSE IF photocellReading >= 20 THEN 20
                     ELSE 5 )

C8_Witness ==
  pc = "lit" /\ photocellReading = 20 /\ backlightVal = 20

\* Decimal digits of a non-negative number, most significant first.
RECURSIVE Digits(_)
Digits(v) == IF v < 10 THEN <<v>> ELSE Append(Digits(v \div 10), v % 10)

FieldWidth(d) ==
  IF Abs(d) > 10 THEN 10 ELSE IF Abs(d) < 1 THEN 1 ELSE Abs(d)

Fits(v, d) == Len(Digits(Abs(v))) + (IF v < 0 THEN 1 ELSE 0) <= FieldWidth(d)

Expected(v, d) ==
  LET sign == IF v < 0 THEN <<Minus>> ELSE <<>>
      digs == Digits(Abs(v))
      pad  == FieldWidth(d) - Len(sign) - Len(digs)
  IN sign \o [k \in 1..pad |-> IF d > 0 THEN 0 ELSE Blank] \o digs

\* C9: for a non-zero value that fits the field, the cells read from the
\* left are: a minus sign if the value is negative, then padding (0 for a
\* positive digit count, blank for a negative one), then the decimal digits.
C9_GlyphSequence ==
  (pc = "drawn" /\ n # 0 /\ Fits(n, nD)) => glyphs = Expected(n, nD)

C9_Witness ==
  pc = "drawn" /\ n = -42 /\ nD = -3 /\ glyphs = <<Minus, 4, 2>>

\* C10: with a negative digit count the value 0 shows as a 0 in the
\* rightmost cell and blanks in all others.
C10_ZeroShowsZero ==
  (pc = "drawn" /\ n = 0 /\ nD < 0) =>
    /\ glyphs[Len(glyphs)] = 0
    /\ \A k \in 1..(Len(glyphs) - 1) : glyphs[k] = Blank

\* C11: a cycle that started more than 5000 ms after power-on with no byte
\* decoded from the receiver halts at the check in loop(); once halted no
\* cycle starts, nothing is drawn, the backlight keeps its value and the RTC
\* is not written.
C11_NoTrafficHalts ==
  [][ /\ (pc = "gpscheck" /\ pc' # pc /\ currentMillis > 5000 /\ chars = 0)
           => pc' = "halt_gps"
      /\ pc = "halt_gps" =>
           UNCHANGED <<pc, cycle, dateDrawn, timeDrawn, glyphs, backlightVal,
                       numberColor, writes, rtcSet>> ]_vars

C11_Witness ==
  /\ pc = "halt_gps" /\ chars = 0 /\ currentMillis > 5000
  /\ dateDrawn = "none" /\ timeDrawn = "none" /\ TotalWrites = 0

C13_BootWriteNeedsSatellites ==
  [][ (writes' # writes /\ newboot /\ ~rtcSet) =>
        (gps.dateValid /\ gps.timeValid /\ gps.sats > 4) ]_vars

\* C14: colorChange stays within 0..2 in every state.
C14_HoldoffRange ==
  colorChange \in 0..2

\* C15: any two cycles that pass the 60 s gate of scheduledSync lie more
\* than 60000 ms of run time apart, wherever the 32-bit millis() stands.
C15_GateSpacing ==
  gateGap = -1 \/ gateGap > 60000

\* C16: a minute-21 window that went by in whole while the sketch ran with
\* a valid fix saw at least one RTC write by scheduledSync.
C16_WindowSynced ==
  winClosed => winWrites >= 1

\* C17: after setNumberColor the digits are red exactly when the local hour
\* is 20..23 or 0..5 and the reading it took is at most 100, and white
\* otherwise, whatever the colour was before.
C17_ColorTier ==
  pc = "colored" =>
    numberColor =
      ( IF (hour(local) \in 20..23 \/ hour(local) \in 0..5)
            /\ photocellReading <= 100
          THEN "RED" ELSE "WHITE" )

C17_Witness ==
  /\ pc = "colored" /\ hour(local) = 20 /\ photocellReading = 100
  /\ numberColor = "RED" /\ colorChange = 2

\* C18: the segment dimensions and the digit pitch draw7Number uses are
\* those of the cell size clamped to 1..10 without its sign; the pitch is
\* 5c + 3(2c) + 2 for the clamped size c.
C18_ClampedGeometry ==
  pc = "drawn" =>
    LET c == IF Abs(cS) > 10 THEN 10 ELSE IF Abs(cS) < 1 THEN 1 ELSE Abs(cS)
    IN /\ geom.S2 = 5 * c /\ geom.S3 = 2 * c /\ geom.S4 = 7 * c
       /\ geom.d = 5 * c + 3 * (2 * c) + 2

\* C19: once rtcSet is true it stays true, whatever is written to the RTC
\* afterwards.
C19_SyncedAbsorbing ==
  [][rtcSet => rtcSet']_vars

C19_Witness ==
  /\ pc = "setBackLightBrightness" /\ cycle = 2 /\ rtcSet
  /\ TotalWrites > 0 /\ RtcNotSet(rtc) /\ ~RtcNotSet(bootRtc)
  /\ dateDrawn = "date" /\ timeDrawn = "time"

\* C20: when a cycle ends with red digits the backlight is not at 255.
C20_RedNotBright ==
  (pc = "loop" /\ cycle > 0 /\ numberColor = "RED") => backlightVal # 255

====
